---------------------------- MODULE Spec2Model ----------------------------
(***************************************************************************)
(* Git2Txt: the repository ingestion service (src/services/github.ts).      *)
(*                                                                         *)
(* Strings are sequences of characters.  Where only the position of the    *)
(* separators matters, a run of ordinary characters is written as one      *)
(* element ("png", "readme"); the separators "/", "." and "_" are always   *)
(* elements of their own.                                                  *)
(***************************************************************************)
EXTENDS Naturals, Integers, Sequences, FiniteSets, TLC

(***************************************************************************)
(* Bounds of the model.                                                    *)
(***************************************************************************)
MaxEvents == 2       \* events of the environment explored: clock advances,
                     \* failed operations, pushes to the remote repository
MaxUrlPathLen == 4   \* characters of the path of an input URL (SpecUrl)
MaxNameLen == 3      \* characters of an owner or repository name (SpecDir)
MaxFilePathLen == 4  \* elements of a file path (SpecFilter)
MaxContentLen == 3   \* characters of the content of a file (SpecCombine)

(***************************************************************************)
(* String helpers (JavaScript String / Array built-ins used by the code).  *)
(***************************************************************************)
\* All sequences over S of length 0..n.
SeqsUpTo(S, n) == UNION {[1..k -> S] : k \in 0..n}

\* String.prototype.indexOf for one character: first index of ch, 0 if none.
IndexOf(s, ch) ==
  IF \E i \in 1..Len(s) : s[i] = ch
    THEN CHOOSE i \in 1..Len(s) : s[i] = ch /\ \A j \in 1..(i-1) : s[j] # ch
    ELSE 0

\* Last index of ch in s, 0 if none.
LastIndexOf(s, ch) ==
  IF \E i \in 1..Len(s) : s[i] = ch
    THEN CHOOSE i \in 1..Len(s) : s[i] = ch /\ \A j \in (i+1)..Len(s) : s[j] # ch
    ELSE 0

\* String.prototype.split(sep): the pieces between the separators, empty
\* pieces included ("/a/b" gives "", "a", "b").
RECURSIVE Split(_, _)
Split(s, sep) ==
  LET i == IndexOf(s, sep)
  IN IF i = 0 THEN <<s>>
     ELSE <<SubSeq(s, 1, i-1)>> \o Split(SubSeq(s, i+1, Len(s)), sep)

\* String.prototype.replace(a, b) with a string pattern: the FIRST occurrence
\* only.
ReplaceFirst(s, a, b) ==
  LET i == IndexOf(s, a)
  IN IF i = 0 THEN s
     ELSE SubSeq(s, 1, i-1) \o <<b>> \o SubSeq(s, i+1, Len(s))

\* String.prototype.toLowerCase on one element.
LowerChar(ch) ==
  CASE ch = "PNG" -> "png"
    [] ch = "GZ"  -> "gz"
    [] ch = "A"   -> "a"
    [] OTHER      -> ch

ToLowerCase(s) == [i \in 1..Len(s) |-> LowerChar(s[i])]

(***************************************************************************)
(* Eligibility filter.                                                     *)
(***************************************************************************)
IGNORED_EXTENSIONS ==
  { <<".", e>> : e \in { "jpg", "jpeg", "png", "gif", "ico", "pdf",
                         "doc", "docx", "ppt", "pptx", "xls", "xlsx",
                         "zip", "tar", "gz", "rar", "7z",
                         "exe", "dll", "so", "dylib" } }

MAX_FILE_SIZE == 1024 * 1024

\* The path with its trailing "/" characters removed.
RECURSIVE StripTrailingSlashes(_)
StripTrailingSlashes(p) ==
  IF Len(p) > 0 /\ p[Len(p)] = "/"
    THEN StripTrailingSlashes(SubSeq(p, 1, Len(p) - 1))
    ELSE p

\* The last component of a path.
Basename(p) ==
  LET q == StripTrailingSlashes(p)
  IN SubSeq(q, LastIndexOf(q, "/") + 1, Len(q))

\* path.extname: from the last "." of the last path component to its end;
\* empty when that component has no ".", when its only "." is its first
\* character, or when it is "..".
Extname(filepath) ==
  LET base == Basename(filepath)
      d    == LastIndexOf(base, ".")
  IN IF d = 0 \/ d = 1 \/ base = <<".", ".">>
       THEN <<>>
       ELSE SubSeq(base, d, Len(base))

\* shouldProcessFile with a size of exactly the ceiling rejected.
ShouldProcessFileInclusive(filepath, stats) ==
  LET ext == ToLowerCase(Extname(filepath))
  IN IF ext \in IGNORED_EXTENSIONS THEN FALSE
     ELSE IF stats.size >= MAX_FILE_SIZE THEN FALSE
     ELSE TRUE

ShouldProcessFile(filepath, stats) ==
  LET ext == ToLowerCase(Extname(filepath))
  IN IF ext \in IGNORED_EXTENSIONS THEN FALSE
     ELSE IF stats.size > MAX_FILE_SIZE THEN FALSE
     ELSE TRUE


(***************************************************************************)
(* Repository URL resolution.                                              *)
(*                                                                         *)
(* An input URL string is the record of its three parts as typed:          *)
(* scheme ("" when the text has no "scheme://" prefix), host and the       *)
(* characters after the host.                                              *)
(***************************************************************************)
Null == <<"null">>

\* The URL parser lower-cases the host name.
LowerHost(h) == IF h = "GitHub.com" THEN "github.com" ELSE h

\* new URL(repoUrl): throws (ok = FALSE) on text without a scheme; otherwise
\* hostname is the lower-cased host and pathname is the path, "/" when empty.
NewURL(repoUrl) ==
  IF repoUrl.scheme = ""
    THEN [ok |-> FALSE, hostname |-> "", pathname |-> <<>>]
    ELSE [ok |-> TRUE,
          hostname |-> LowerHost(repoUrl.host),
          pathname |-> IF repoUrl.path = <<>> THEN <<"/">> ELSE repoUrl.path]

\* extractRepoPath asking for one path segment only.
ExtractRepoPathOneSegment(repoUrl) ==
  LET url == NewURL(repoUrl)
  IN IF ~url.ok THEN Null
     ELSE IF url.hostname # "github.com" THEN Null
     ELSE LET pathParts == SelectSeq(Split(url.pathname, "/"), LAMBDA p : p # <<>>)
          IN IF Len(pathParts) < 1 THEN Null
             ELSE pathParts[1] \o <<"/">> \o pathParts[Len(pathParts)]

ExtractRepoPath(repoUrl) ==
  LET url == NewURL(repoUrl)
  IN IF ~url.ok THEN Null
     ELSE IF url.hostname # "github.com" THEN Null
     ELSE LET pathParts == SelectSeq(Split(url.pathname, "/"), LAMBDA p : p # <<>>)
          IN IF Len(pathParts) < 2 THEN Null
             ELSE pathParts[1] \o <<"/">> \o pathParts[2]

\* path.join(os.tmpdir(), `repo_${repoPath.replace('/', '_')}_${Date.now()}`)
TempDirName(repoPath, t) ==
  <<"/tmp/", "repo_">> \o ReplaceFirst(repoPath, "/", "_") \o <<"_", ToString(t)>>

(***************************************************************************)
(* The remote repository and the file system.                              *)
(*                                                                         *)
(* Every repository holds the same small tree; version v differs from      *)
(* version 1 in the content of its files.  A directory on disk is either   *)
(* empty (0) or holds the checkout of one version.                         *)
(***************************************************************************)
Dirent(name, isDir) == [name |-> name, isDirectory |-> isDir]

DotGit == <<".", "git">>

\* Directory listings of a checkout, in readdir order, by relative path.
TreeDirs ==
  ( <<>> :> << Dirent(DotGit, TRUE), Dirent(<<"src">>, TRUE),
               Dirent(<<"readme", ".", "md">>, FALSE) >> )
  @@ ( DotGit :> << Dirent(<<"HEAD">>, FALSE) >> )
  @@ ( <<"src">> :> << Dirent(DotGit, TRUE),
                       Dirent(<<"main", ".", "ts">>, FALSE),
                       Dirent(<<"logo", ".", "PNG">>, FALSE) >> )
  @@ ( <<"src", "/", ".", "git">> :> << Dirent(<<"config">>, FALSE) >> )

\* fs.stat(...).size of the regular files of a checkout.
TreeSizes ==
  ( <<".", "git", "/", "HEAD">> :> 23 )
  @@ ( <<"src", "/", ".", "git", "/", "config">> :> 92 )
  @@ ( <<"src", "/", "main", ".", "ts">> :> 120 )
  @@ ( <<"src", "/", "logo", ".", "PNG">> :> 4096 )
  @@ ( <<"readme", ".", "md">> :> MAX_FILE_SIZE )

\* The text of a file of version v.
ContentOf(v, path) == <<path, v>>

EmptyDir == 0


(***************************************************************************)
(* getRepoFiles: state.                                                    *)
(***************************************************************************)
CACHE_DURATION == 5 * 60 * 1000

\* Concurrent getRepoFiles calls (server-action invocations).
Calls == {1, 2, 3}

VARIABLES
  call,       \* per call: its position and its local variables
  repoCache,  \* Map<string, {timestamp, files}>: a function on its keys
  disk,       \* os.tmpdir(): a function on the existing scratch directories
  remote,     \* the latest version of the repository a clone has fetched
  now,        \* the latest value Date.now() has returned, in milliseconds
  events,     \* events of the environment so far
  probe,      \* one application of shouldProcessFile: its arguments and result
  ui          \* the state of the page component Home (useState values)

\* The variables outside the ingestion service.
other == <<probe, ui>>

vars == <<call, repoCache, disk, remote, now, events, probe, ui>>

\* A Map without keys; a tmpdir without scratch directories.
EmptyMap == [x \in {} |-> 0]

NoUrl == [scheme |-> "", host |-> "", path |-> <<>>]

\* A call before it is made.  pc is the pending step; earlier is the set of
\* calls for the same URL that had already returned successfully from a clone
\* when this call started (history, read only by the properties).
IdleCall ==
  [pc |-> "idle", repoUrl |-> NoUrl, repoPath |-> Null, tempDir |-> <<>>,
   stack |-> <<>>, files |-> <<>>, stats |-> [size |-> 0], error |-> "",
   status |-> "none", message |-> <<>>, result |-> <<>>,
   startedAt |-> 0, capturedAt |-> 0, cloned |-> 0, cleanup |-> "none",
   earlier |-> {}]

NoProbe == [filepath |-> <<>>, stats |-> [size |-> 0], state |-> "none"]

\* The page as first rendered.  pending holds the URL of the getRepoFiles
\* call fetchFiles is awaiting (NoUrl: none); toast is the last toast shown.
InitUi ==
  [repoUrl |-> NoUrl, repoName |-> <<>>, files |-> <<>>, selectedFiles |-> <<>>,
   includePath |-> FALSE, minified |-> FALSE, outputText |-> <<>>,
   structuredDir |-> [files |-> {}, dirs |-> {}],
   isLoading |-> FALSE, pending |-> NoUrl, toast |-> <<>>]

\* The service before its first call.
InitService ==
  /\ call = [c \in Calls |-> IdleCall]
  /\ repoCache = EmptyMap
  /\ disk = EmptyMap
  /\ remote = 1
  /\ now = 0
  /\ events = 0

Init ==
  /\ InitService
  /\ probe = NoProbe
  /\ ui = InitUi

(***************************************************************************)
(* File-system and cache primitives.                                       *)
(***************************************************************************)
\* Map.prototype.set
MapSet(m, k, v) == [x \in (DOMAIN m) \cup {k} |-> IF x = k THEN v ELSE m[x]]

\* fs.rm(dir, {recursive: true, force: true}) that succeeds.
Rm(d, dir) == [x \in (DOMAIN d) \ {dir} |-> d[x]]

\* fs.mkdir(dir, {recursive: true}) that succeeds: an existing directory is
\* left as it is.
Mkdir(d, dir) == IF dir \in DOMAIN d THEN d ELSE MapSet(d, dir, EmptyDir)

\* git clone refuses a destination that exists and is not empty.
CanCloneInto(d, dir) == IF dir \in DOMAIN d THEN d[dir] = EmptyDir ELSE TRUE

\* Whether the checkout in dir still holds its files.
HasCheckout(d, dir) == dir \in DOMAIN d /\ d[dir] # EmptyDir

\* Whether fs.readdir of relative directory rel of dir can succeed.
CanReaddir(d, dir, rel) ==
  /\ dir \in DOMAIN d
  /\ IF d[dir] = EmptyDir THEN rel = <<>> ELSE rel \in DOMAIN TreeDirs

ReaddirResult(d, dir, rel) == IF d[dir] = EmptyDir THEN <<>> ELSE TreeDirs[rel]

\* A cache keyed by the resolved repository: https://github.com/<owner>/<name>.
CacheKeyResolved(repoUrl, repoPath) ==
  [scheme |-> "https", host |-> "github.com", path |-> <<"/">> \o repoPath]

\* The key of repoCache.get and repoCache.set: the URL string as passed.
CacheKey(repoUrl, repoPath) == repoUrl

\* The cache test with the comparison turned around.
CacheFreshInverted(cached, t) == (t - cached.timestamp) > CACHE_DURATION

\* The cache test with an entry of exactly the cache duration still served.
CacheFreshAtExpiry(cached, t) == (t - cached.timestamp) <= CACHE_DURATION

\* The cache test of getRepoFiles.
CacheFresh(cached, t) == (t - cached.timestamp) < CACHE_DURATION

(***************************************************************************)
(* listFiles: the walk.  A frame is one activation of listFiles: the       *)
(* relative path of its directory (prefix), its entries, and the index of  *)
(* the entry at hand (0: readdir pending).                                  *)
(***************************************************************************)
Frame(prefix) == [prefix |-> prefix, entries |-> <<>>, idx |-> 0]

RelativePath(prefix, name) ==
  IF prefix # <<>> THEN prefix \o <<"/">> \o name ELSE name

Top(stk) == stk[Len(stk)]
Pop(stk) == SubSeq(stk, 1, Len(stk) - 1)
SetTop(stk, f) == [stk EXCEPT ![Len(stk)] = f]
NextEntry(stk) == SetTop(stk, [Top(stk) EXCEPT !.idx = @ + 1])

\* The synchronous code of listFiles up to its next await: finished
\* activations return, the .git directory is passed over, a subdirectory
\* starts its own activation (its readdir is the next await), a file is
\* about to be stat'ed.
\* The same code without the test of the directory name.
RECURSIVE AdvanceIntoGit(_)
AdvanceIntoGit(stk) ==
  IF stk = <<>> THEN stk
  ELSE LET top == Top(stk)
       IN IF top.idx = 0 THEN stk
          ELSE IF top.idx > Len(top.entries) THEN AdvanceIntoGit(Pop(stk))
          ELSE LET entry == top.entries[top.idx]
               IN IF entry.isDirectory
                    THEN NextEntry(stk) \o
                           <<Frame(RelativePath(top.prefix, entry.name))>>
                    ELSE stk

RECURSIVE Advance(_)
Advance(stk) ==
  IF stk = <<>> THEN stk
  ELSE LET top == Top(stk)
       IN IF top.idx = 0 THEN stk
          ELSE IF top.idx > Len(top.entries) THEN Advance(Pop(stk))
          ELSE LET entry == top.entries[top.idx]
               IN IF entry.isDirectory
                    THEN IF entry.name # DotGit
                           THEN NextEntry(stk) \o
                                  <<Frame(RelativePath(top.prefix, entry.name))>>
                           ELSE Advance(NextEntry(stk))
                    ELSE stk

\* The pushed file with the length of its content as its size.
GitHubFileContentLength(path, content, size) ==
  [path |-> path, type |-> "file", content |-> content, sha |-> "",
   size |-> Len(content)]

\* The object listFiles pushes.
GitHubFile(path, content, size) ==
  [path |-> path, type |-> "file", content |-> content, sha |-> "", size |-> size]


(***************************************************************************)
(* The environment: the clock, the remote repository, failures.            *)
(***************************************************************************)
\* Between two readings of the clock no millisecond has passed, or just
\* under the cache duration, or the cache duration.
TickSteps == {CACHE_DURATION - 1, CACHE_DURATION}

\* The values Date.now() may return after e events.
ClockReadings(e) ==
  {now} \cup (IF e < MaxEvents THEN {now + d : d \in TickSteps} ELSE {})

\* Date.now() returns t; e events had happened before.
DateNow(t, e) ==
  /\ now' = t
  /\ events' = IF t = now THEN e ELSE e + 1

\* The versions a clone may fetch: somebody may have pushed since the last
\* clone.
RemoteVersions ==
  {remote} \cup (IF events < MaxEvents THEN {remote + 1} ELSE {})

\* An awaited file-system or network operation may fail.
CanFail == events < MaxEvents

(***************************************************************************)
(* getRepoFiles: steps.  A step is the effect of one awaited operation     *)
(* followed by the synchronous code up to the next await.                  *)
(***************************************************************************)
Update(c, changes) == call' = [call EXCEPT ![c] = changes @@ call[c]]

\* The call and its synchronous prefix: URL check, cache check, choice of
\* the scratch directory name; the initial fs.rm is issued.
GetRepoFiles(c, repoUrl) ==
  /\ call[c].pc = "idle"
  /\ LET repoPath == ExtractRepoPath(repoUrl)
         key == CacheKey(repoUrl, repoPath)
         entry(t) ==
           [repoUrl |-> repoUrl, repoPath |-> repoPath, startedAt |-> t,
            earlier |-> {d \in Calls : /\ call[d].pc = "done"
                                       /\ call[d].status = "ok"
                                       /\ call[d].tempDir # <<>>
                                       /\ call[d].repoUrl = repoUrl}]
     IN IF repoPath = Null
          THEN /\ Update(c, [pc |-> "done", status |-> "error",
                             message |-> <<"Invalid repository URL provided.">>]
                            @@ entry(now))
               /\ UNCHANGED <<now, events>>
          ELSE \E t \in ClockReadings(events) :
                 /\ DateNow(t, events)
                 /\ IF IF key \in DOMAIN repoCache
                         THEN CacheFresh(repoCache[key], t) ELSE FALSE
                      THEN Update(c, [pc |-> "done", status |-> "ok",
                                      result |-> repoCache[key].files] @@ entry(t))
                      ELSE Update(c, [pc |-> "rm0",
                                      tempDir |-> TempDirName(repoPath, t)] @@ entry(t))
  /\ UNCHANGED <<repoCache, disk, remote, other>>

\* await fs.rm(tempDir, ...).catch(() => {}) before the clone.
RmInitial(c) ==
  /\ call[c].pc = "rm0"
  /\ \/ /\ disk' = Rm(disk, call[c].tempDir)
        /\ UNCHANGED events
     \/ /\ CanFail
        /\ events' = events + 1
        /\ UNCHANGED disk
  /\ Update(c, [pc |-> "mkdir"])
  /\ UNCHANGED <<repoCache, remote, now, other>>

\* await fs.mkdir(tempDir, {recursive: true})
MkdirStep(c) ==
  /\ call[c].pc = "mkdir"
  /\ \/ /\ disk' = Mkdir(disk, call[c].tempDir)
        /\ Update(c, [pc |-> "clone"])
        /\ UNCHANGED events
     \/ /\ CanFail
        /\ events' = events + 1
        /\ Update(c, [pc |-> "cleanupErr", error |-> "EACCES: mkdir"])
        /\ UNCHANGED disk
  /\ UNCHANGED <<repoCache, remote, now, other>>

\* await git.clone(...); on success listFiles(tempDir) is called and its
\* readdir is issued.
Clone(c) ==
  /\ call[c].pc = "clone"
  /\ \/ /\ CanCloneInto(disk, call[c].tempDir)
        /\ \E v \in RemoteVersions :
             /\ remote' = v
             /\ events' = IF v = remote THEN events ELSE events + 1
             /\ disk' = MapSet(disk, call[c].tempDir, v)
             /\ Update(c, [pc |-> "walk", cloned |-> v,
                           stack |-> <<Frame(<<>>)>>, files |-> <<>>])
     \/ /\ ~CanCloneInto(disk, call[c].tempDir)
        /\ Update(c, [pc |-> "cleanupErr",
                      error |-> "destination path already exists"])
        /\ UNCHANGED <<disk, remote, events>>
     \/ /\ CanFail
        /\ events' = events + 1
        /\ Update(c, [pc |-> "cleanupErr", error |-> "Could not resolve host"])
        /\ UNCHANGED <<disk, remote>>
  /\ UNCHANGED <<repoCache, now, other>>

\* The continuation of getRepoFiles and listFiles after an awaited operation
\* of the walk: with the stack stk and the list fls, run to the next await
\* (e: the events so far, the outcome of the awaited operation included).
\* When the outermost listFiles has returned, the cache entry is written and
\* the final fs.rm is issued.
Resume(c, stk, fls, e) ==
  LET next == Advance(stk)
  IN IF next = <<>>
       THEN \E t \in ClockReadings(e) :
              /\ DateNow(t, e)
              /\ repoCache' = MapSet(repoCache,
                                     CacheKey(call[c].repoUrl, call[c].repoPath),
                                     [timestamp |-> t, files |-> fls])
              /\ Update(c, [pc |-> "cleanupOk", stack |-> <<>>, files |-> fls,
                            capturedAt |-> t])
       ELSE /\ Update(c, [pc |-> "walk", stack |-> next, files |-> fls])
            /\ events' = e
            /\ UNCHANGED <<repoCache, now>>

\* await fs.readdir(dir, {withFileTypes: true}); a failure is caught by the
\* activation, which returns the files it has.
Readdir(c) ==
  /\ call[c].pc = "walk"
  /\ Top(call[c].stack).idx = 0
  /\ LET stk == call[c].stack
         top == Top(stk)
     IN \/ /\ CanReaddir(disk, call[c].tempDir, top.prefix)
           /\ Resume(c, SetTop(stk, [top EXCEPT
                          !.entries = ReaddirResult(disk, call[c].tempDir, top.prefix),
                          !.idx = 1]),
                     call[c].files, events)
        \/ /\ ~CanReaddir(disk, call[c].tempDir, top.prefix)
           /\ Resume(c, Pop(stk), call[c].files, events)
        \/ /\ CanFail
           /\ Resume(c, Pop(stk), call[c].files, events + 1)
  /\ UNCHANGED <<disk, remote, other>>

\* await fs.stat(entryPath), then shouldProcessFile; an eligible file is
\* about to be read.  A failure is caught by the activation.
Stat(c) ==
  /\ call[c].pc = "walk"
  /\ Top(call[c].stack).idx > 0
  /\ LET stk == call[c].stack
         top == Top(stk)
         relativePath == RelativePath(top.prefix, top.entries[top.idx].name)
         stats == [size |-> TreeSizes[relativePath]]
     IN \/ /\ HasCheckout(disk, call[c].tempDir)
           /\ IF ShouldProcessFile(relativePath, stats)
                THEN /\ Update(c, [pc |-> "read", stats |-> stats])
                     /\ UNCHANGED <<repoCache, now, events>>
                ELSE Resume(c, NextEntry(stk), call[c].files, events)
        \/ /\ ~HasCheckout(disk, call[c].tempDir)
           /\ Resume(c, Pop(stk), call[c].files, events)
        \/ /\ CanFail
           /\ Resume(c, Pop(stk), call[c].files, events + 1)
  /\ UNCHANGED <<disk, remote, other>>

\* readFileFromRepo with a catch block that returns nothing.
ReadFileFromRepoUndefined(d, dir, relativePath, ok) ==
  IF ok THEN ContentOf(d[dir], relativePath) ELSE <<"undefined">>

\* readFileFromRepo: the text of the file, '' when fs.readFile fails.
ReadFileFromRepo(d, dir, relativePath, ok) ==
  IF ok THEN ContentOf(d[dir], relativePath) ELSE <<>>

\* await readFileFromRepo(entryPath): the text, or '' when the read fails;
\* the file is pushed.
ReadFile(c) ==
  /\ call[c].pc = "read"
  /\ LET stk == call[c].stack
         top == Top(stk)
         relativePath == RelativePath(top.prefix, top.entries[top.idx].name)
         push(content, e) ==
           Resume(c, NextEntry(stk),
                  Append(call[c].files,
                         GitHubFile(relativePath, content, call[c].stats.size)),
                  e)
         content(ok) == ReadFileFromRepo(disk, call[c].tempDir, relativePath, ok)
     IN \/ /\ HasCheckout(disk, call[c].tempDir)
           /\ push(content(TRUE), events)
        \/ /\ ~HasCheckout(disk, call[c].tempDir)
           /\ push(content(FALSE), events)
        \/ /\ CanFail
           /\ push(content(FALSE), events + 1)
  /\ UNCHANGED <<disk, remote, other>>

\* The return after the walk with the failure of fs.rm left uncaught.
AfterCleanupThrowing(files, removed) ==
  IF removed THEN [pc |-> "done", status |-> "ok", result |-> files]
  ELSE [pc |-> "done", status |-> "error",
        message |-> <<"Failed to clone repository: ", "EBUSY: rm">>]

\* What getRepoFiles does once the fs.rm after the walk has settled.
AfterCleanup(files, removed) ==
  [pc |-> "done", status |-> "ok", result |-> files]

\* await fs.rm(tempDir, ...).catch(() => {}) after the walk; return files.
RmFinal(c) ==
  /\ call[c].pc = "cleanupOk"
  /\ \/ /\ disk' = Rm(disk, call[c].tempDir)
        /\ Update(c, [cleanup |-> "removed"] @@ AfterCleanup(call[c].files, TRUE))
        /\ UNCHANGED events
     \/ /\ CanFail
        /\ events' = events + 1
        /\ Update(c, [cleanup |-> "failed"] @@ AfterCleanup(call[c].files, FALSE))
        /\ UNCHANGED disk
  /\ UNCHANGED <<repoCache, remote, now, other>>

\* A catch block that removes nothing.
CatchNoRm(d, dir) == d

\* The removal in the catch block.
CatchRm(d, dir) == Rm(d, dir)

\* A catch block whose fs.rm is not caught: its failure replaces the error.
CatchThrowRmError(error, removed) ==
  [pc |-> "done", status |-> "error",
   message |-> IF removed THEN <<"Failed to clone repository: ", error>>
               ELSE <<"EBUSY: rm">>]

\* What the catch block throws once its fs.rm has settled.
CatchThrow(error, removed) ==
  [pc |-> "done", status |-> "error",
   message |-> <<"Failed to clone repository: ", error>>]

\* catch: await fs.rm(tempDir, ...).catch(() => {}); throw new Error(...).
RmOnError(c) ==
  /\ call[c].pc = "cleanupErr"
  /\ \/ /\ disk' = CatchRm(disk, call[c].tempDir)
        /\ Update(c, [cleanup |-> "removed"] @@ CatchThrow(call[c].error, TRUE))
        /\ UNCHANGED events
     \/ /\ CanFail
        /\ events' = events + 1
        /\ Update(c, [cleanup |-> "failed"] @@ CatchThrow(call[c].error, FALSE))
        /\ UNCHANGED disk
  /\ UNCHANGED <<repoCache, remote, now, other>>

Step(c) ==
  \/ RmInitial(c) \/ MkdirStep(c) \/ Clone(c)
  \/ Readdir(c) \/ Stat(c) \/ ReadFile(c)
  \/ RmFinal(c) \/ RmOnError(c)

\* Input URLs of the main specification: two spellings of one repository
\* and a URL without a repository name.
UrlAB == [scheme |-> "https", host |-> "github.com", path |-> <<"/", "a", "/", "b">>]
UrlABSlash == [scheme |-> "https", host |-> "github.com",
               path |-> <<"/", "a", "/", "b", "/">>]
UrlNoName == [scheme |-> "https", host |-> "github.com", path |-> <<"/", "a">>]
MainUrls == {UrlAB, UrlABSlash, UrlNoName}

\* Calls 1 and 2 may overlap; call 3 is made after both have ended.
MayStart(c) ==
  /\ \A d \in Calls : d < c => call[d].pc # "idle"
  /\ c = 3 => \A d \in {1, 2} : call[d].pc = "done"

Next ==
  \/ \E c \in Calls : \E repoUrl \in MainUrls : MayStart(c) /\ GetRepoFiles(c, repoUrl)
  \/ \E c \in Calls : Step(c)

Spec == Init /\ [][Next]_vars


(***************************************************************************)
(* SpecUrl: the URL check of getRepoFiles on every URL string of a         *)
(* bounded alphabet.                                                       *)
(***************************************************************************)
UrlSchemes == {"", "https", "http"}
UrlHosts == {"github.com", "GitHub.com", "gitlab.com"}
UrlPathChars == {"/", "a"}
\* What follows the host is empty or starts with "/".
UrlPaths ==
  {p \in SeqsUpTo(UrlPathChars, MaxUrlPathLen) : p = <<>> \/ p[1] = "/"}
UrlStrings ==
  {[scheme |-> s, host |-> h, path |-> p] :
     s \in UrlSchemes, h \in UrlHosts, p \in UrlPaths}

NextUrl ==
  \E c \in {1, 2} : \E repoUrl \in UrlStrings : MayStart(c) /\ GetRepoFiles(c, repoUrl)

SpecUrl == Init /\ [][NextUrl]_vars

(***************************************************************************)
(* SpecDir: the scratch directory names of two calls in flight, for        *)
(* owners and names with underscores.                                      *)
(***************************************************************************)
NameChars == {"a", "_"}
Names ==
  {n \in SeqsUpTo(NameChars, MaxNameLen) :
     n # <<>> /\ n[1] = "a" /\ n[Len(n)] = "a"}
DirUrls ==
  {[scheme |-> "https", host |-> "github.com",
    path |-> <<"/">> \o owner \o <<"/">> \o name] : owner \in Names, name \in Names}

NextDir ==
  \E c \in {1, 2} : \E repoUrl \in DirUrls : MayStart(c) /\ GetRepoFiles(c, repoUrl)

SpecDir == Init /\ [][NextDir]_vars

(***************************************************************************)
(* SpecFilter: shouldProcessFile on every path of a bounded alphabet and   *)
(* on the sizes around the ceiling.                                        *)
(***************************************************************************)
FilePathChars == {"/", ".", "a", "png", "PNG"}
FilePaths == SeqsUpTo(FilePathChars, MaxFilePathLen) \ {<<>>}
FileSizes == {0, MAX_FILE_SIZE - 1, MAX_FILE_SIZE, MAX_FILE_SIZE + 1}

InitFilter ==
  /\ InitService
  /\ probe \in {[filepath |-> p, stats |-> [size |-> n], state |-> "none"] :
                  p \in FilePaths, n \in FileSizes}
  /\ ui = InitUi

\* await shouldProcessFile(relativePath, stats)
ShouldProcessFileCall ==
  /\ probe.state = "none"
  /\ probe' = [probe EXCEPT !.state =
                 IF ShouldProcessFile(probe.filepath, probe.stats)
                   THEN "eligible" ELSE "rejected"]
  /\ UNCHANGED <<call, repoCache, disk, remote, now, events, ui>>

NextFilter == ShouldProcessFileCall

SpecFilter == InitFilter /\ [][NextFilter]_vars


(***************************************************************************)
(* The page component (Home): selection and assembly.  The strings of      *)
(* this part are sequences of single characters.                           *)
(***************************************************************************)
\* String.prototype.startsWith
StartsWith(s, prefix) ==
  /\ Len(prefix) <= Len(s)
  /\ SubSeq(s, 1, Len(prefix)) = prefix

\* The characters matched by \s and removed by trim().
Whitespace == {" ", "\n", "\t"}

\* String.prototype.trim
Trim(s) ==
  LET ink == {i \in 1..Len(s) : s[i] \notin Whitespace}
  IN IF ink = {} THEN <<>>
     ELSE SubSeq(s, CHOOSE i \in ink : \A j \in ink : i <= j,
                    CHOOSE i \in ink : \A j \in ink : i >= j)

\* s.replace(/\s+/g, " "): every maximal run of whitespace becomes one space.
RECURSIVE CollapseWhitespace(_)
CollapseWhitespace(s) ==
  IF s = <<>> THEN <<>>
  ELSE IF s[1] \notin Whitespace THEN <<s[1]>> \o CollapseWhitespace(Tail(s))
  ELSE IF Len(s) > 1 /\ s[2] \in Whitespace THEN CollapseWhitespace(Tail(s))
  ELSE <<" ">> \o CollapseWhitespace(Tail(s))

\* s.replace(/\s*/g, " "): the pattern also matches the empty string before
\* every character and at the end.
RECURSIVE CollapseWhitespaceStar(_)
CollapseWhitespaceStar(s) ==
  IF s = <<>> THEN <<" ">>
  ELSE IF s[1] \notin Whitespace
         THEN <<" ", s[1]>> \o CollapseWhitespaceStar(Tail(s))
  ELSE IF Len(s) > 1 /\ s[2] \in Whitespace THEN CollapseWhitespaceStar(Tail(s))
  ELSE <<" ">> \o CollapseWhitespaceStar(Tail(s))

\* Minification with the pattern \s* in place of \s+.
MinifyStar(fileContent) == Trim(CollapseWhitespaceStar(fileContent))

\* fileContent.replace(/\s+/g, " ").trim()
Minify(fileContent) == Trim(CollapseWhitespace(fileContent))

\* files.find((f) => f.path === filePath): its index, 0 for undefined.
FindFile(files, filePath) ==
  LET hits == {i \in 1..Len(files) : files[i].path = filePath}
  IN IF hits = {} THEN 0 ELSE CHOOSE i \in hits : \A j \in hits : i <= j

\* What combineFiles appends for one selected path.
Piece(files, filePath, includePath, minified) ==
  LET k == FindFile(files, filePath)
  IN IF k = 0 THEN <<>>
     ELSE LET fileContent == IF minified THEN Minify(files[k].content)
                                         ELSE files[k].content
          IN IF includePath
               THEN <<"[", "p", "a", "t", "h", ":">> \o files[k].path
                      \o <<"]", "\n">> \o fileContent \o <<"\n", "\n">>
               ELSE fileContent \o <<"\n", "\n">>

\* The loop of combineFiles over selectedFiles[i..], from combined.
RECURSIVE CombineFrom(_, _, _, _, _, _)
CombineFrom(combined, files, selectedFiles, i, includePath, minified) ==
  IF i > Len(selectedFiles) THEN combined
  ELSE CombineFrom(combined \o Piece(files, selectedFiles[i], includePath, minified),
                   files, selectedFiles, i + 1, includePath, minified)

\* combineFiles without the trim of the result.
CombineFilesUntrimmed(files, selectedFiles, includePath, minified) ==
  CombineFrom(<<>>, files, selectedFiles, 1, includePath, minified)

\* combineFiles
CombineFiles(files, selectedFiles, includePath, minified) ==
  Trim(CombineFrom(<<>>, files, selectedFiles, 1, includePath, minified))

\* The effect on [selectedFiles, includePath, minified, files].
OutputText(files, selectedFiles, includePath, minified) ==
  IF Len(selectedFiles) > 0
    THEN CombineFiles(files, selectedFiles, includePath, minified)
    ELSE <<>>

\* Array.prototype.includes
Includes(arr, x) == \E i \in 1..Len(arr) : arr[i] = x

\* files.map((file) => file.path)
FilePathsOf(files) == [i \in 1..Len(files) |-> files[i].path]

\* structureFiles: the file paths and the paths of the folders of the tree.
StructureFiles(files) ==
  [files |-> {files[i].path : i \in 1..Len(files)},
   dirs  |-> UNION {{SubSeq(files[i].path, 1, k - 1) :
                       k \in {k \in 1..Len(files[i].path) : files[i].path[k] = "/"}} :
                    i \in 1..Len(files)}]

\* toggleFileSelection: the updater of setSelectedFiles.
ToggleFileSelection(prev, path) ==
  IF Includes(prev, path)
    THEN SelectSeq(prev, LAMBDA p : p # path)
    ELSE Append(prev, path)

\* The folder test with the "/" left out.
InFolderByName(path, folderPath) == StartsWith(path, folderPath)

\* file.path.startsWith(folderPath + "/")
InFolder(path, folderPath) == StartsWith(path, folderPath \o <<"/">>)

\* toggleFolderSelection: the updater of setSelectedFiles.
ToggleFolderSelection(files, prev, folderPath, checked) ==
  LET folderFiles == SelectSeq(files, LAMBDA file : InFolder(file.path, folderPath))
      folderFilePaths == FilePathsOf(folderFiles)
  IN IF checked
       THEN prev \o SelectSeq(folderFilePaths, LAMBDA path : ~Includes(prev, path))
       ELSE SelectSeq(prev, LAMBDA path : ~Includes(folderFilePaths, path))

\* selectAllFiles
SelectAllFiles(files) == FilePathsOf(files)

\* excludeAllFiles
ExcludeAllFiles == <<>>

\* getRepoNameFromUrl: owner/name of any URL that parses, "" otherwise.
GetRepoNameFromUrl(url) ==
  LET urlObj == NewURL(url)
  IN IF ~urlObj.ok THEN <<>>
     ELSE LET pathParts == SelectSeq(Split(urlObj.pathname, "/"), LAMBDA p : p # <<>>)
          IN IF Len(pathParts) >= 2
               THEN pathParts[1] \o <<"/">> \o pathParts[2]
               ELSE <<>>

\* The effects that follow every render: structuredDir is rebuilt when the
\* file list is not empty, outputText is recomputed.
Effects(u) ==
  [u EXCEPT
     !.structuredDir = IF Len(u.files) > 0 THEN StructureFiles(u.files) ELSE @,
     !.outputText = OutputText(u.files, u.selectedFiles, u.includePath, u.minified)]

\* The controls of the selection and option cards are rendered.
CardsShown == Len(ui.files) > 0

\* The try block of fetchFiles after getRepoFiles has returned, with the
\* selection left as it is.
FetchSucceededKeepingSelection(u, fetchedFiles) ==
  [u EXCEPT !.files = fetchedFiles,
            !.repoName = GetRepoNameFromUrl(u.pending)]

\* The try block of fetchFiles after getRepoFiles has returned.
FetchSucceeded(u, fetchedFiles) ==
  [u EXCEPT !.files = fetchedFiles,
            !.selectedFiles = <<>>,
            !.repoName = GetRepoNameFromUrl(u.pending)]

\* A catch block that also empties the file list and the selection.
FetchFailedClearingFiles(u, message) ==
  [u EXCEPT !.toast = message, !.files = <<>>, !.selectedFiles = <<>>]

\* The catch block of fetchFiles.
FetchFailed(u, message) == [u EXCEPT !.toast = message]

\* The finally block of fetchFiles.
FetchFinally(u) == [u EXCEPT !.isLoading = FALSE, !.pending = NoUrl]

(***************************************************************************)
(* The page: handlers.  The service variables are left alone: the outcome  *)
(* of the awaited getRepoFiles call is an input of FetchSettles.           *)
(***************************************************************************)
UiFile(path, content) == GitHubFile(path, content, Len(content))

\* File lists getRepoFiles returns to the page: two states of a repository
\* with the folders s, s/l and s2, and an empty list.
UiFilesOne ==
  << UiFile(<<"s", "/", "a">>, <<"x", " ", "\n", "y">>),
     UiFile(<<"s", "/", "l", "/", "b">>, <<"\n", "z">>),
     UiFile(<<"s", "2", "/", "c">>, <<"w", "\t">>),
     UiFile(<<"d">>, <<>>) >>

UiFilesTwo ==
  << UiFile(<<"s", "/", "a">>, <<"x">>),
     UiFile(<<"e">>, <<"v", " ", " ", "v">>) >>

UiFileLists == {UiFilesOne, UiFilesTwo, <<>>}

\* The text of the URL input: empty, a repository, a URL without a name.
UiUrls == {NoUrl, UrlAB, UrlNoName}

\* onChange of the URL input.
SetRepoUrl(url) ==
  /\ ui.repoUrl # url
  /\ ui' = Effects([ui EXCEPT !.repoUrl = url])

\* fetchFiles up to its await (the button is disabled while isLoading).
FetchFiles ==
  /\ ~ui.isLoading
  /\ IF ui.repoUrl = NoUrl
       THEN ui' = Effects([ui EXCEPT !.toast = <<"Please enter a repository URL.">>])
       ELSE ui' = Effects([ui EXCEPT !.isLoading = TRUE, !.pending = ui.repoUrl])

\* fetchFiles from the return of getRepoFiles on.
FetchSettles ==
  /\ ui.pending # NoUrl
  /\ IF ExtractRepoPath(ui.pending) = Null
       THEN ui' = Effects(FetchFinally(
                    FetchFailed(ui, <<"Invalid repository URL provided.">>)))
       ELSE \/ \E fetchedFiles \in UiFileLists :
                 ui' = Effects(FetchFinally(FetchSucceeded(ui, fetchedFiles)))
            \/ ui' = Effects(FetchFinally(
                       FetchFailed(ui, <<"Failed to clone repository: ",
                                         "Could not resolve host">>)))

\* onCheckedChange of the checkbox of a file of the tree.
ToggleFile(path) ==
  /\ CardsShown
  /\ path \in ui.structuredDir.files
  /\ ui' = Effects([ui EXCEPT !.selectedFiles = ToggleFileSelection(@, path)])

\* getAllFilePaths(item.children).every((path) => selectedFiles.includes(path))
FolderChecked(u, folderPath) ==
  \A path \in u.structuredDir.files :
    StartsWith(path, folderPath \o <<"/">>) => Includes(u.selectedFiles, path)

\* onCheckedChange of the checkbox of a folder of the tree.
ToggleFolder(folderPath) ==
  /\ CardsShown
  /\ folderPath \in ui.structuredDir.dirs
  /\ ui' = Effects([ui EXCEPT !.selectedFiles =
                      ToggleFolderSelection(ui.files, @, folderPath,
                                            ~FolderChecked(ui, folderPath))])

\* onCheckedChange of the "Select all files" switch.
ToggleSelectAll ==
  /\ CardsShown
  /\ ui' = Effects([ui EXCEPT !.selectedFiles =
                      IF Len(ui.selectedFiles) # Len(ui.files)
                        THEN SelectAllFiles(ui.files)
                        ELSE ExcludeAllFiles])

\* onCheckedChange of the "Include File Path" switch.
SetIncludePath ==
  /\ CardsShown
  /\ ui' = Effects([ui EXCEPT !.includePath = ~@])

\* onCheckedChange of the "Minify" switch.
SetMinified ==
  /\ CardsShown
  /\ ui' = Effects([ui EXCEPT !.minified = ~@])

service == <<call, repoCache, disk, remote, now, events, probe>>

NextUi ==
  \/ (\E url \in UiUrls : SetRepoUrl(url)) /\ UNCHANGED service
  \/ FetchFiles /\ UNCHANGED service
  \/ FetchSettles /\ UNCHANGED service
  \/ (\E path \in ui.structuredDir.files : ToggleFile(path)) /\ UNCHANGED service
  \/ (\E folderPath \in ui.structuredDir.dirs : ToggleFolder(folderPath))
       /\ UNCHANGED service
  \/ ToggleSelectAll /\ UNCHANGED service
  \/ SetIncludePath /\ UNCHANGED service
  \/ SetMinified /\ UNCHANGED service

SpecUi == Init /\ [][NextUi]_vars


(***************************************************************************)
(* SpecCombine: the assembly of the output text for two files a.txt and    *)
(* b.txt of every bounded content, every selection of them in either       *)
(* order and both options.                                                 *)
(***************************************************************************)
ContentChars == {"x", " ", "\n"}
PathATxt == <<"a", ".", "t", "x", "t">>
PathBTxt == <<"b", ".", "t", "x", "t">>
ContentsOfA ==
  SeqsUpTo(ContentChars, MaxContentLen)
    \cup {<<"f", "o", "o", "\n", "\n", "b", "a", "r">>}
ContentsOfB ==
  SeqsUpTo(ContentChars, MaxContentLen - 1) \cup {<<"b", "a", "z">>}

\* The page after a fetch has returned the two files.
InitCombine ==
  /\ InitService
  /\ probe = NoProbe
  /\ \E ca \in ContentsOfA : \E cb \in ContentsOfB :
       ui = Effects(FetchFinally(FetchSucceeded(
              [InitUi EXCEPT !.repoUrl = UrlAB, !.isLoading = TRUE, !.pending = UrlAB],
              << UiFile(PathATxt, ca), UiFile(PathBTxt, cb) >>)))

NextCombine ==
  \/ (\E path \in ui.structuredDir.files : ToggleFile(path)) /\ UNCHANGED service
  \/ SetIncludePath /\ UNCHANGED service
  \/ SetMinified /\ UNCHANGED service

SpecCombine == InitCombine /\ [][NextCombine]_vars


(***************************************************************************)
(* Properties.                                                             *)
(***************************************************************************)
Started(c) == call[c].pc # "idle"
Done(c) == call[c].pc = "done"
Succeeded(c) == Done(c) /\ call[c].status = "ok"
Failed(c) == Done(c) /\ call[c].status = "error"
\* The call missed the cache and chose a scratch directory.
Allocated(c) == call[c].tempDir # <<>>
\* The call ends in this step.
Ends(c) == call[c].pc # "done" /\ call'[c].pc = "done"

PathsOf(files) == {files[i].path : i \in DOMAIN files}

\* Whether path p lies in a .git directory.
InGitDir(p) ==
  LET parts == Split(p, "/")
  IN \E i \in 1..(Len(parts) - 1) : parts[i] = DotGit

\* The paths of all eligible files of a checkout.
EligiblePaths ==
  {p \in DOMAIN TreeSizes :
     ~InGitDir(p) /\ ShouldProcessFile(p, [size |-> TreeSizes[p]])}

Complete(files) == PathsOf(files) = EligiblePaths

InvalidUrlMessage == <<"Invalid repository URL provided.">>

(* C1, as claimed: once a call for a URL has succeeded, every later call   *)
(* with that URL started less than CACHE_DURATION after that call's        *)
(* capture succeeds at once, without a scratch directory, with exactly     *)
(* the file list of that earlier call.                                     *)
C1_ReturnsFirstCallList ==
  \A c \in Calls : Started(c) =>
    \A d \in call[c].earlier :
      call[c].startedAt - call[d].capturedAt < CACHE_DURATION
        => /\ Succeeded(c)
           /\ ~Allocated(c)
           /\ call[c].result = call[d].result

\* Call c starts in this step, and a call for the same URL that has
\* succeeded captured its entry less than CACHE_DURATION before.
StartsAfterFreshSuccess(c) ==
  /\ call[c].pc = "idle"
  /\ call'[c].pc # "idle"
  /\ \E d \in Calls :
       /\ Succeeded(d) /\ Allocated(d)
       /\ call[d].repoUrl = call'[c].repoUrl
       /\ call'[c].startedAt - call[d].capturedAt < CACHE_DURATION

(* C1, amended: such a later call ends in its first step, successfully,    *)
(* with the file list the cache holds for the URL at that moment, which    *)
(* is the list written by a call for that URL that reached the cache       *)
(* write; it allocates no scratch directory and leaves disk and cache      *)
(* untouched (no removal, no mkdir, no clone, no walk).                    *)
C1_CacheHitReturnsCachedList ==
  [][\A c \in Calls : StartsAfterFreshSuccess(c) =>
       LET url == call'[c].repoUrl
       IN /\ call'[c].pc = "done"
          /\ call'[c].status = "ok"
          /\ url \in DOMAIN repoCache
          /\ call'[c].result = repoCache[url].files
          /\ \E w \in Calls : /\ call[w].pc \in {"cleanupOk", "done"}
                              /\ Allocated(w)
                              /\ call[w].status # "error"
                              /\ call[w].repoUrl = url
                              /\ call[w].files = call'[c].result
          /\ call'[c].tempDir = <<>>
          /\ disk' = disk
          /\ repoCache' = repoCache
          /\ remote' = remote]_vars

\* A call answered from an entry that is 299,999 ms old.
C1_Witness ==
  \E c \in Calls : \E d \in call[c].earlier :
    /\ Succeeded(c) /\ ~Allocated(c)
    /\ call[c].startedAt - call[d].capturedAt = CACHE_DURATION - 1
    /\ call[c].result = call[d].result
    /\ Complete(call[c].result)

(* C2, as claimed: when a call that allocated a scratch directory ends,    *)
(* on any path, that directory no longer exists.                           *)
C2_ScratchGoneAtExit ==
  [][\A c \in Calls : (Ends(c) /\ Allocated(c)) =>
       call[c].tempDir \notin DOMAIN disk']_vars

(* C2, amended: a call that allocated a scratch directory ends only by     *)
(* the step that settles its removal (after the walk or in the catch       *)
(* block); when the removal did not fail, the directory no longer exists   *)
(* as the call ends.                                                       *)
C2_RemovalAttemptedAtExit ==
  [][\A c \in Calls : (Ends(c) /\ Allocated(c)) =>
       /\ call[c].pc \in {"cleanupOk", "cleanupErr"}
       /\ call'[c].cleanup \in {"removed", "failed"}
       /\ call'[c].cleanup = "removed" => call[c].tempDir \notin DOMAIN disk']_vars

\* A call that failed in the clone and whose scratch directory was removed,
\* next to one that succeeded and whose directory was removed.
C2_Witness ==
  /\ \E c \in Calls : /\ Failed(c) /\ Allocated(c)
                      /\ call[c].cleanup = "removed"
                      /\ call[c].error = "Could not resolve host"
                      /\ call[c].tempDir \notin DOMAIN disk
  /\ \E c \in Calls : /\ Succeeded(c) /\ Allocated(c)
                      /\ call[c].cleanup = "removed"

(* C3: a call ends with an error or with the complete list of the          *)
(* eligible files of the checkout, and every cached list is complete.      *)
C3_CompleteListOrError ==
  /\ \A c \in Calls : (Succeeded(c) /\ Allocated(c)) => Complete(call[c].result)
  /\ \A url \in DOMAIN repoCache : Complete(repoCache[url].files)

(* C4: two overlapping calls for the same URL that both cloned each        *)
(* return a complete list, and the entry they leave in the cache is the    *)
(* complete list of one of them.                                           *)
C4_ConcurrentCallsComplete ==
  \A c, d \in Calls :
    ( /\ c # d
      /\ Succeeded(c) /\ Allocated(c)
      /\ Succeeded(d) /\ Allocated(d)
      /\ call[c].repoUrl = call[d].repoUrl
      /\ c \notin call[d].earlier /\ d \notin call[c].earlier
      /\ \A e \in Calls \ {c, d} : ~Started(e) )
    => /\ Complete(call[c].result)
       /\ Complete(call[d].result)
       /\ repoCache[call[c].repoUrl].files \in {call[c].result, call[d].result}

(* C5: two calls in flight for different repositories have different       *)
(* scratch directory names.                                                *)
C5_DistinctReposDistinctDirs ==
  \A c, d \in Calls :
    ( /\ Allocated(c) /\ Allocated(d)
      /\ ~Done(c) /\ ~Done(d)
      /\ call[c].repoPath # call[d].repoPath )
    => call[c].tempDir # call[d].tempDir

\* The call has made its scratch directory and has not started to remove it.
UsesDir(c) == call[c].pc \in {"clone", "walk", "read"}

\* Call c's pending fs.rm removes its scratch directory in this step.
Removes(c) ==
  /\ call[c].pc \in {"rm0", "cleanupOk", "cleanupErr"}
  /\ call'[c].pc # call[c].pc
  /\ call[c].tempDir \in DOMAIN disk
  /\ call[c].tempDir \notin DOMAIN disk'

(* C6: no removal by one call deletes the scratch directory another call   *)
(* is using, so that no call clones into, walks or reads a directory       *)
(* after another call's removal of it has run.                             *)
C6_ScratchDirExclusive ==
  [][\A c, d \in Calls :
       (c # d /\ Removes(c) /\ UsesDir(d)) => call[d].tempDir # call[c].tempDir]_vars

\* Maximal runs of characters other than "/".
SegmentCount(path) ==
  Cardinality({i \in 1..Len(path) :
                 path[i] # "/" /\ (i = 1 \/ path[i-1] = "/")})

\* The URL string has the form https://github.com/<owner>/<name>...
MatchesHttpsPattern(repoUrl) ==
  /\ repoUrl.scheme = "https"
  /\ repoUrl.host \in {"github.com", "GitHub.com"}
  /\ SegmentCount(repoUrl.path) >= 2

\* The call was refused at the URL check, before anything else.
RefusedAsInvalid(c) ==
  /\ call[c].repoPath = Null
  /\ Failed(c)
  /\ call[c].message = InvalidUrlMessage
  /\ ~Allocated(c)

(* C7, as claimed: every call with a URL that is not of the form           *)
(* https://github.com/<owner>/<name>... is refused as invalid.             *)
C7_NonHttpsPatternRefused ==
  \A c \in Calls :
    (Started(c) /\ ~MatchesHttpsPattern(call[c].repoUrl)) => RefusedAsInvalid(c)

(* C7, amended: every call with a URL that does not parse, whose host is   *)
(* not github.com or whose path has fewer than two non-empty segments is   *)
(* refused as invalid before any cache lookup, directory creation or       *)
(* clone; the scheme is not examined.                                      *)
C7_InvalidUrlRefused ==
  /\ \A c \in Calls :
       ( /\ Started(c)
         /\ \/ call[c].repoUrl.scheme = ""
            \/ call[c].repoUrl.host \notin {"github.com", "GitHub.com"}
            \/ SegmentCount(call[c].repoUrl.path) < 2 )
       => RefusedAsInvalid(c)
  /\ (\A c \in Calls : Started(c) => call[c].repoPath = Null)
       => (disk = EmptyMap /\ repoCache = EmptyMap /\ now = 0)

\* Refused calls of each kind: no scheme, another host, one segment only.
C7_Witness ==
  /\ \E c \in Calls : RefusedAsInvalid(c) /\ call[c].repoUrl.host = "gitlab.com"
                      /\ call[c].repoUrl.scheme = "https"
                      /\ SegmentCount(call[c].repoUrl.path) = 2
  /\ \E c \in Calls : RefusedAsInvalid(c) /\ call[c].repoUrl.host = "github.com"
                      /\ call[c].repoUrl.scheme = "https"
                      /\ call[c].repoUrl.path = <<"/", "a", "/">>

\* The text from the last "." of the path on, lower-cased, is an ignored
\* extension.
LastDotSegmentIgnored(filepath) ==
  LET d == LastIndexOf(filepath, ".")
  IN /\ d > 0
     /\ ToLowerCase(SubSeq(filepath, d, Len(filepath))) \in IGNORED_EXTENSIONS

(* C8: a path whose last dot-delimited segment, lower-cased, is an ignored *)
(* extension is rejected whatever its size.                                *)
C8_IgnoredExtensionRejected ==
  (probe.state # "none" /\ LastDotSegmentIgnored(probe.filepath))
    => probe.state = "rejected"

\* No element of the path is the name of an ignored extension.
MentionsNoIgnoredExtension(filepath) ==
  \A i \in 1..Len(filepath) : <<".", LowerChar(filepath[i])>> \notin IGNORED_EXTENSIONS

(* C9: a size above 1,048,576 bytes is rejected whatever the path, and a   *)
(* size of exactly 1,048,576 bytes is accepted for a path without an       *)
(* ignored extension.                                                      *)
C9_SizeCeiling ==
  probe.state # "none" =>
    /\ probe.stats.size > 1048576 => probe.state = "rejected"
    /\ (probe.stats.size = 1048576 /\ MentionsNoIgnoredExtension(probe.filepath))
         => probe.state = "eligible"

\* A file of exactly the ceiling accepted, and seen rejected one byte above.
C9_Witness ==
  /\ probe.state = "eligible"
  /\ probe.stats.size = 1048576
  /\ probe.filepath = <<"a", ".", "a">>
  /\ ~ShouldProcessFile(probe.filepath, [size |-> probe.stats.size + 1])

(* C10: the cache changes only in the step in which a call's walk returns, *)
(* and only at that call's URL; a call that has written the cache ends     *)
(* successfully, so a call that fails has left every entry as it was.      *)
C10_OnlySuccessfulCallsWrite ==
  [][ /\ repoCache' # repoCache =>
           \E c \in Calls :
             /\ call[c].pc \in {"walk", "read"}
             /\ call'[c].pc = "cleanupOk"
             /\ \A url \in DOMAIN repoCache :
                  url # call[c].repoUrl =>
                    (url \in DOMAIN repoCache' /\ repoCache'[url] = repoCache[url])
      /\ \A c \in Calls :
           call[c].pc = "cleanupOk" =>
             \/ call'[c].pc = "cleanupOk"
             \/ call'[c].pc = "done" /\ call'[c].status = "ok"
      /\ \A c \in Calls :
           (Ends(c) /\ call'[c].status = "error") =>
             call[c].pc \in {"idle", "cleanupErr"} ]_vars

\* A call that failed in the clone while the cache held an expired entry
\* for its URL, which is still there.
C10_Witness ==
  \E c \in Calls :
    /\ Failed(c) /\ Allocated(c)
    /\ call[c].repoUrl \in DOMAIN repoCache
    /\ call[c].startedAt - repoCache[call[c].repoUrl].timestamp >= CACHE_DURATION

\* Call c starts in this step with a valid URL whose cache entry is
\* CACHE_DURATION old or older.
StartsOnExpiredEntry(c) ==
  /\ call[c].pc = "idle"
  /\ call'[c].pc # "idle"
  /\ call'[c].repoPath # Null
  /\ call'[c].repoUrl \in DOMAIN repoCache
  /\ call'[c].startedAt - repoCache[call'[c].repoUrl].timestamp >= CACHE_DURATION

\* Call c's walk returns in this step.
WalkReturns(c) == call[c].pc \in {"walk", "read"} /\ call'[c].pc = "cleanupOk"

(* C11: a call that finds an entry 5 minutes old or older is not answered  *)
(* from it but goes on to a new clone (it allocates a scratch directory    *)
(* and issues the removal, mkdir and clone); when its walk has returned    *)
(* the entry of its URL holds the new list and the time read then, and     *)
(* that list is what the call returns; no step removes a key of the cache. *)
C11_ExpiredEntryReplaced ==
  [][ /\ \A c \in Calls : StartsOnExpiredEntry(c) =>
           /\ call'[c].pc = "rm0"
           /\ call'[c].tempDir # <<>>
           /\ repoCache' = repoCache
      /\ \A c \in Calls : WalkReturns(c) =>
           /\ call[c].repoUrl \in DOMAIN repoCache'
           /\ repoCache'[call[c].repoUrl] =
                [timestamp |-> now', files |-> call'[c].files]
      /\ \A c \in Calls : (Ends(c) /\ call[c].pc = "cleanupOk") =>
           call'[c].result = call[c].files
      /\ \A c \in Calls : (Ends(c) /\ call'[c].status = "ok" /\ ~Allocated(c)) =>
           /\ call'[c].repoUrl \in DOMAIN repoCache
           /\ now' - repoCache[call'[c].repoUrl].timestamp < CACHE_DURATION
      /\ DOMAIN repoCache \subseteq DOMAIN repoCache' ]_vars

\* A call made exactly CACHE_DURATION after the capture of an entry has
\* cloned again and replaced the entry by its own list and time.
C11_Witness ==
  \E c \in Calls : \E d \in call[c].earlier :
    /\ Succeeded(c) /\ Allocated(c)
    /\ call[c].startedAt - call[d].capturedAt = CACHE_DURATION
    /\ call[c].cloned = call[d].cloned + 1
    /\ repoCache[call[c].repoUrl] =
         [timestamp |-> call[c].capturedAt, files |-> call[c].result]
    /\ call[c].result # call[d].result

\* .git is one of the segments of the path p.
HasGitSegment(p) ==
  LET parts == Split(p, "/")
  IN \E i \in 1..Len(parts) : parts[i] = DotGit

(* C15: no activation of the walk lists a directory named .git or a        *)
(* directory below one, at any depth, and no path of a list a call         *)
(* gathers, returns or caches has .git as one of its directory segments.   *)
C15_GitDirNeverWalked ==
  /\ \A c \in Calls :
       /\ \A i \in DOMAIN call[c].stack : ~HasGitSegment(call[c].stack[i].prefix)
       /\ \A p \in PathsOf(call[c].files) \cup PathsOf(call[c].result) : ~InGitDir(p)
  /\ \A url \in DOMAIN repoCache :
       \A p \in PathsOf(repoCache[url].files) : ~InGitDir(p)

\* A call has returned the files listed after the .git directory of the
\* root and after the one of src, and nothing from within them.
C15_Witness ==
  \E c \in Calls :
    /\ Succeeded(c) /\ Allocated(c)
    /\ <<".", "git", "/", "HEAD">> \in DOMAIN TreeSizes
    /\ <<"src", "/", ".", "git", "/", "config">> \in DOMAIN TreeSizes
    /\ PathsOf(call[c].result) =
         {<<"src", "/", "main", ".", "ts">>, <<"readme", ".", "md">>}

\* The relative path of the entry at hand of call c's innermost activation.
PathAtHand(c) ==
  LET top == call[c].stack[Len(call[c].stack)]
  IN (IF top.prefix = <<>> THEN <<>> ELSE top.prefix \o <<"/">>)
       \o top.entries[top.idx].name

\* The read of the file at hand of call c settles in this step.
ReadSettles(c) == call[c].pc = "read" /\ call'[c] # call[c]

\* The texts a file of the repository may have.
Texts(p) == {<<p, v>> : v \in 1..(MaxEvents + 2)}

(* C16: when the read of an eligible file settles, by its text or by a     *)
(* failure, the file is appended to the list with its path, the size on    *)
(* disk and the text or the empty content, every file gathered before is   *)
(* kept, the call is not failed, and the walk goes on in the same          *)
(* directory: no regular file after the one read is passed over.           *)
C16_ReadFailureRecordsEmptyContent ==
  [][\A c \in Calls : ReadSettles(c) =>
       LET stk  == call[c].stack
           n    == Len(stk)
           top  == stk[n]
           path == PathAtHand(c)
           fls  == call'[c].files
           stk2 == call'[c].stack
       IN /\ Len(fls) = Len(call[c].files) + 1
          /\ SubSeq(fls, 1, Len(call[c].files)) = call[c].files
          /\ fls[Len(fls)].path = path
          /\ fls[Len(fls)].size = TreeSizes[path]
          /\ fls[Len(fls)].content \in {<<>>} \cup Texts(path)
          /\ (IF call[c].tempDir \in DOMAIN disk
                THEN disk[call[c].tempDir] = EmptyDir ELSE TRUE)
               => fls[Len(fls)].content = <<>>
          /\ call'[c].pc \in {"walk", "cleanupOk"}
          /\ call'[c].status = "none"
          /\ IF Len(stk2) >= n
               THEN /\ stk2[n].entries = top.entries
                    /\ stk2[n].idx > top.idx
                    /\ \A i \in (top.idx + 1)..(stk2[n].idx - 1) :
                         top.entries[i].isDirectory
               ELSE \A i \in (top.idx + 1)..Len(top.entries) :
                      top.entries[i].isDirectory ]_vars

\* A call has returned the complete list, one file of it with the empty
\* content of a failed read and its size on disk.
C16_Witness ==
  \E c \in Calls :
    /\ Succeeded(c) /\ Allocated(c)
    /\ Complete(call[c].result)
    /\ \E i \in DOMAIN call[c].result :
         /\ call[c].result[i].path = <<"src", "/", "main", ".", "ts">>
         /\ call[c].result[i].content = <<>>
         /\ call[c].result[i].size = 120
    /\ \E i \in DOMAIN call[c].result :
         /\ call[c].result[i].path = <<"readme", ".", "md">>
         /\ call[c].result[i].content # <<>>

\* Call c has a file of its checkout at hand (stat or read pending).
FileAtHand(c) ==
  /\ call[c].pc \in {"walk", "read"}
  /\ call[c].stack # <<>>
  /\ call[c].stack[Len(call[c].stack)].idx > 0

(* C18: a read is issued only by the step in which the stat of the same    *)
(* file has returned and shouldProcessFile has accepted its path and       *)
(* size, so the content of a rejected file is never read; a file is        *)
(* added to the list only when its read settles, with the size that stat   *)
(* returned, whether the read gave the text or failed.                     *)
C18_StatAndFilterBeforeRead ==
  [][\A c \in Calls :
       /\ (call'[c].pc = "read" /\ call[c].pc # "read") =>
            /\ call[c].pc = "walk"
            /\ FileAtHand(c)
            /\ call'[c].stack = call[c].stack
            /\ call'[c].stats.size = TreeSizes[PathAtHand(c)]
            /\ call'[c].stats.size <= 1048576
            /\ ToLowerCase(Extname(PathAtHand(c))) \notin IGNORED_EXTENSIONS
       /\ (call'[c].files # call[c].files /\ call'[c].files # <<>>) =>
            /\ call[c].pc = "read"
            /\ call'[c].files =
                 Append(call[c].files,
                        [path |-> PathAtHand(c), type |-> "file",
                         content |-> call'[c].files[Len(call'[c].files)].content,
                         sha |-> "", size |-> call[c].stats.size])
            /\ call[c].stats.size = TreeSizes[PathAtHand(c)] ]_vars

\* A call has returned without src/logo.PNG, which it stat'ed and did not
\* read, and with readme.md, whose read failed, at its size on disk.
C18_Witness ==
  \E c \in Calls :
    /\ Succeeded(c) /\ Allocated(c)
    /\ PathsOf(call[c].result) =
         {<<"src", "/", "main", ".", "ts">>, <<"readme", ".", "md">>}
    /\ \E i \in DOMAIN call[c].result :
         /\ call[c].result[i].path = <<"readme", ".", "md">>
         /\ call[c].result[i].content = <<>>
         /\ call[c].result[i].size = 1048576

\* The errors of the operations of the try block.
PrimaryErrors ==
  {"EACCES: mkdir", "destination path already exists", "Could not resolve host"}

(* C17: whether the removal of the scratch directory succeeds or fails, a  *)
(* call whose walk has returned ends by returning its list, the cache      *)
(* entry it wrote left as it is, and a call whose mkdir or clone failed    *)
(* ends with the error "Failed to clone repository: " followed by the      *)
(* message of that failure; the removal never changes the cache.           *)
C17_RemovalFailureKeepsOutcome ==
  [][\A c \in Calls : (Ends(c) /\ Allocated(c)) =>
       /\ call'[c].cleanup \in {"removed", "failed"}
       /\ repoCache' = repoCache
       /\ call[c].pc = "cleanupOk" =>
            /\ call'[c].status = "ok"
            /\ call'[c].result = call[c].files
            /\ call[c].repoUrl \in DOMAIN repoCache'
       /\ call[c].pc # "cleanupOk" =>
            /\ call[c].pc = "cleanupErr"
            /\ call[c].error \in PrimaryErrors
            /\ call'[c].status = "error"
            /\ call'[c].message = <<"Failed to clone repository: ", call[c].error>> ]_vars

\* A call whose clone failed and whose removal failed as well has ended with
\* the clone's message, its scratch directory left on disk.
C17_Witness ==
  \E c \in Calls :
    /\ Failed(c) /\ Allocated(c)
    /\ call[c].cleanup = "failed"
    /\ call[c].message = <<"Failed to clone repository: ", "Could not resolve host">>
    /\ call[c].tempDir \in DOMAIN disk

\* The cache holds an entry for the URL string u that is less than
\* CACHE_DURATION old at time t.
FreshEntry(u, t) ==
  IF u \in DOMAIN repoCache
    THEN t - repoCache[u].timestamp < CACHE_DURATION
    ELSE FALSE

(* C19: the keys of the cache are URL strings as passed; a call is         *)
(* answered from the cache exactly when the entry of its own URL string    *)
(* is fresh, and then with that entry's list, whatever the entries of      *)
(* other URL strings of the same repository; and the walk's return of a    *)
(* call writes the entry of its own URL string and leaves every other      *)
(* entry, those of the same repository included, as it was.                *)
C19_CacheKeyedByUrlString ==
  [][ /\ \A c \in Calls :
           (call[c].pc = "idle" /\ call'[c].pc # "idle" /\ call'[c].repoPath # Null) =>
             LET u == call'[c].repoUrl
             IN IF FreshEntry(u, call'[c].startedAt)
                  THEN /\ call'[c].pc = "done"
                       /\ call'[c].result = repoCache[u].files
                  ELSE call'[c].pc = "rm0"
      /\ \A c \in Calls : WalkReturns(c) =>
           /\ DOMAIN repoCache' = DOMAIN repoCache \cup {call[c].repoUrl}
           /\ \A u \in DOMAIN repoCache :
                u # call[c].repoUrl => repoCache'[u] = repoCache[u] ]_vars

\* Two spellings of the URL of one repository have their own entries with
\* different lists, the second written by a call that cloned while the
\* entry of the first was fresh.
C19_Witness ==
  \E c, d \in Calls :
    /\ Succeeded(c) /\ Allocated(c)
    /\ Succeeded(d) /\ Allocated(d)
    /\ call[c].repoUrl # call[d].repoUrl
    /\ call[c].repoPath = call[d].repoPath
    /\ call[d].startedAt >= call[c].capturedAt
    /\ call[d].startedAt - call[c].capturedAt < CACHE_DURATION
    /\ call[c].cleanup = "removed"
    /\ call[d].tempDir # call[c].tempDir
    /\ {call[c].repoUrl, call[d].repoUrl} \subseteq DOMAIN repoCache
    /\ repoCache[call[c].repoUrl].files = call[c].result
    /\ repoCache[call[d].repoUrl].files = call[d].result
    /\ call[c].result # call[d].result

\* The file path lies in the folder, at any depth: the segments of the
\* folder path are the first segments of the file path.
LiesIn(path, folderPath) ==
  LET f == Split(folderPath, "/")
      q == Split(path, "/")
  IN Len(f) < Len(q) /\ SubSeq(q, 1, Len(f)) = f

\* The selected paths outside the folder, in selection order.
SelectedOutside(selectedFiles, folderPath) ==
  SelectSeq(selectedFiles, LAMBDA path : ~LiesIn(path, folderPath))

(* C14: a click on the checkbox of a folder that is not checked selects    *)
(* every file of the list that lies in the folder, at any depth, and a     *)
(* click on a checked one unselects every such file; either way the        *)
(* selected paths outside the folder, those of a folder whose name begins  *)
(* with the folder's name included, stay the same in the same order.       *)
C14_FolderToggleFrame ==
  [][\A folderPath \in ui.structuredDir.dirs : ToggleFolder(folderPath) =>
       LET inside == {ui.files[i].path : i \in {i \in 1..Len(ui.files) :
                                                 LiesIn(ui.files[i].path, folderPath)}}
           wasChecked == \A path \in inside : Includes(ui.selectedFiles, path)
       IN /\ inside # {}
          /\ IF wasChecked
               THEN \A path \in inside : ~Includes(ui'.selectedFiles, path)
               ELSE \A path \in inside : Includes(ui'.selectedFiles, path)
          /\ SelectedOutside(ui'.selectedFiles, folderPath)
               = SelectedOutside(ui.selectedFiles, folderPath)
          /\ ui'.files = ui.files ]_vars

\* The folder s has been checked while s2/c was selected and d was not.
C14_Witness ==
  /\ ui.files = UiFilesOne
  /\ ui.selectedFiles = << <<"s", "/", "l", "/", "b">>, <<"s", "2", "/", "c">>,
                           <<"s", "/", "a">> >>

(* C20: the selection list holds no path twice, and every path of it is    *)
(* the path of a file of the file list the page holds.                     *)
C20_SelectionWithinFiles ==
  /\ \A i, j \in 1..Len(ui.selectedFiles) :
       ui.selectedFiles[i] = ui.selectedFiles[j] => i = j
  /\ \A i \in 1..Len(ui.selectedFiles) :
       \E k \in 1..Len(ui.files) : ui.files[k].path = ui.selectedFiles[i]

\* The second list is loaded with both of its files selected, after a fetch
\* that failed.
C20_Witness ==
  /\ ui.files = UiFilesTwo
  /\ Len(ui.selectedFiles) = 2
  /\ ui.toast = <<"Failed to clone repository: ", "Could not resolve host">>
  /\ ~ui.isLoading

\* s without its leading and trailing whitespace.
Stripped(s) ==
  LET lead  == Cardinality({i \in 1..Len(s) : \A j \in 1..i : s[j] \in Whitespace})
      trail == Cardinality({i \in 1..Len(s) : \A j \in i..Len(s) : s[j] \in Whitespace})
  IN IF lead = Len(s) THEN <<>> ELSE SubSeq(s, lead + 1, Len(s) - trail)

\* s with every run of whitespace replaced by one space.
Squeezed(s) ==
  LET kept == SelectSeq([i \in 1..Len(s) |-> i],
                        LAMBDA i : \/ s[i] \notin Whitespace
                                   \/ (IF i = 1 THEN TRUE ELSE s[i-1] \notin Whitespace))
  IN [j \in 1..Len(kept) |-> IF s[kept[j]] \in Whitespace THEN " " ELSE s[kept[j]]]

\* The content recorded for a path of the file list.
ContentAt(files, path) ==
  (CHOOSE f \in {files[i] : i \in 1..Len(files)} : f.path = path).content

\* The block of one selected path: marker line, content, blank line.
Block(files, path, includePath, minify) ==
  (IF includePath THEN <<"[", "p", "a", "t", "h", ":">> \o path \o <<"]", "\n">>
                  ELSE <<>>)
    \o (IF minify THEN Stripped(Squeezed(ContentAt(files, path)))
                  ELSE ContentAt(files, path))
    \o <<"\n", "\n">>

\* The blocks of the first n selected paths, in selection order.
RECURSIVE Blocks(_, _, _, _, _)
Blocks(files, selectedFiles, n, includePath, minify) ==
  IF n = 0 THEN <<>>
  ELSE Blocks(files, selectedFiles, n - 1, includePath, minify)
         \o Block(files, selectedFiles[n], includePath, minify)

(* C12: the output text is the concatenation, over the selected paths in   *)
(* selection order, of the path marker line (when includePath is on), the  *)
(* content (whitespace runs collapsed and trimmed when minify is on) and   *)
(* a blank line, trimmed as a whole; for a.txt = "foo\n\nbar",             *)
(* b.txt = "baz", order [a.txt, b.txt], includePath on and minify off it   *)
(* is "[path:a.txt]\nfoo\n\nbar\n\n[path:b.txt]\nbaz".                      *)
C12_CombineFilesOutput ==
  /\ ui.outputText =
       Stripped(Blocks(ui.files, ui.selectedFiles, Len(ui.selectedFiles),
                       ui.includePath, ui.minified))
  /\ ( /\ ui.files[1].content = <<"f", "o", "o", "\n", "\n", "b", "a", "r">>
       /\ ui.files[2].content = <<"b", "a", "z">>
       /\ ui.selectedFiles = <<PathATxt, PathBTxt>>
       /\ ui.includePath /\ ~ui.minified )
     => ui.outputText =
          <<"[", "p", "a", "t", "h", ":", "a", ".", "t", "x", "t", "]", "\n",
            "f", "o", "o", "\n", "\n", "b", "a", "r", "\n", "\n",
            "[", "p", "a", "t", "h", ":", "b", ".", "t", "x", "t", "]", "\n",
            "b", "a", "z">>

\* The example: both files selected, a.txt first, with path markers.
C12_Witness ==
  /\ ui.files[1].content = <<"f", "o", "o", "\n", "\n", "b", "a", "r">>
  /\ ui.files[2].content = <<"b", "a", "z">>
  /\ ui.selectedFiles = <<PathATxt, PathBTxt>>
  /\ ui.includePath /\ ~ui.minified
  /\ Len(ui.outputText) = 39

(* C13: switching minify on never makes the output text longer, and        *)
(* switching it off never makes it shorter, for the same files, selection  *)
(* and includePath.                                                        *)
C13_MinifyNeverLonger ==
  [][SetMinified =>
       /\ ui'.files = ui.files
       /\ ui'.selectedFiles = ui.selectedFiles
       /\ ui'.includePath = ui.includePath
       /\ ui'.minified # ui.minified
       /\ IF ui'.minified
            THEN Len(ui'.outputText) <= Len(ui.outputText)
            ELSE Len(ui'.outputText) >= Len(ui.outputText) ]_vars

\* Minify is on and a.txt = "foo\n\nbar", selected alone, gives "foo bar".
C13_Witness ==
  /\ ui.minified /\ ~ui.includePath
  /\ ui.files[1].content = <<"f", "o", "o", "\n", "\n", "b", "a", "r">>
  /\ ui.selectedFiles = <<PathATxt>>
  /\ ui.outputText = <<"f", "o", "o", " ", "b", "a", "r">>

\* The file list, the selection and the repository name are left as they are.
FetchLeavesPage ==
  /\ ui'.files = ui.files
  /\ ui'.selectedFiles = ui.selectedFiles
  /\ ui'.repoName = ui.repoName

(* C21: a fetch that fails, with an empty URL before any call, or with an  *)
(* invalid URL or a clone error once getRepoFiles has thrown, shows its    *)
(* message and leaves the file list, the selection and the repository      *)
(* name as they are; a fetch that succeeds puts the returned list in       *)
(* place and empties the selection; the loading flag is true exactly       *)
(* while a fetch is in flight and false once it has ended, either way.     *)
C21_FetchFrame ==
  [][ /\ FetchFiles =>
           IF ui.repoUrl = NoUrl
             THEN /\ FetchLeavesPage
                  /\ ui'.toast = <<"Please enter a repository URL.">>
                  /\ ~ui'.isLoading
                  /\ ui'.pending = NoUrl
             ELSE /\ FetchLeavesPage
                  /\ ui'.isLoading
                  /\ ui'.pending = ui.repoUrl
      /\ FetchSettles =>
           /\ ui.isLoading
           /\ ~ui'.isLoading
           /\ ui'.pending = NoUrl
           /\ \/ /\ ui'.toast \in
                      {<<"Invalid repository URL provided.">>,
                       <<"Failed to clone repository: ", "Could not resolve host">>}
                 /\ FetchLeavesPage
              \/ /\ ExtractRepoPath(ui.pending) # Null
                 /\ ui'.toast = ui.toast
                 /\ ui'.files \in UiFileLists
                 /\ ui'.selectedFiles = <<>>
           /\ ExtractRepoPath(ui.pending) = Null =>
                /\ ui'.toast = <<"Invalid repository URL provided.">>
                /\ FetchLeavesPage
      /\ ui'.isLoading = (ui'.pending # NoUrl) ]_vars

\* A fetch with a URL without a repository name has failed and has left
\* the first list loaded, two of its files selected and the name a/b.
C21_Witness ==
  /\ ui.files = UiFilesOne
  /\ Len(ui.selectedFiles) = 2
  /\ ui.repoName = <<"a", "/", "b">>
  /\ ui.repoUrl = UrlNoName
  /\ ui.toast = <<"Invalid repository URL provided.">>
  /\ ~ui.isLoading

=============================================================================
